---- MODULE Spec2Model ----
(***************************************************************************)
(* Bank-account chaincode (chaincode/hlf-course-chaincode-bank).           *)
(*                                                                         *)
(* The ledger is a key-value store from account numbers to the stored      *)
(* bytes of a BankAccount.  Every invocation runs one handler of the       *)
(* `actions` table to completion.  A stored value is a JSON object, kept   *)
(* here as its sequence of members; json.Unmarshal and json.Marshal are    *)
(* modelled member by member, strconv.ParseFloat character by character.   *)
(* Balances and amounts are whole numbers, on which float64 arithmetic is  *)
(* exact.  Every ledger port call may fault, and the person registry may   *)
(* answer with either status.                                              *)
(***************************************************************************)
EXTENDS Integers, Sequences, FiniteSets, TLC

VARIABLES
    ledger,   \* world state: account number -> stored bytes (present keys only)
    last,     \* the last invocation: operation, params, response
    calls,    \* the port calls the last invocation issued, in order
    inflight, \* the transfer between its two PutState calls, or NoTransfer
    atomic    \* whether the platform runs every invocation as one step

vars == <<ledger, last, calls, inflight, atomic>>

(***************************************************************************)
(* Bounds of the model.                                                    *)
(***************************************************************************)
\* invocations that would store a balance outside -MaxOverdraft..MaxBalance are
\* not explored
MaxBalance == 100
MaxOverdraft == 50

(***************************************************************************)
(* shim response envelope.                                                 *)
(***************************************************************************)
OK == 200
ERROR == 500

Response(status, message, payload) ==
    [status |-> status, message |-> message, payload |-> payload]

\* shim.Success(payload); a nil payload is the empty sequence
Success(payload) == Response(OK, "", payload)

\* shim.Error(msg)
Error(msg) == Response(ERROR, msg, <<>>)

\* the fixed part of each message the handlers pass to shim.Error
MsgWrongArguments    == "wrong number of arguments"
MsgWrongParameters   == "wrong number of parameters"
MsgWrongTransferArgs == "wrong number of parameters(use: from, to, amount)"
MsgDeserialize       == "failed to desirialize bank account information"
MsgPersonRejected    == "failed to create bank account for person"
MsgCreateRead        == "failed to create bank account"
MsgAlreadyExists     == "bank account already exists"
MsgSave              == "failed to save bank account"
MsgGetAccount        == "failed to get account information"
MsgNoAccount         == "bank account doesn't exists"
MsgDelete            == "failed to delete account"
MsgAmount            == "failed to convert amount string to number"
MsgGetSender         == "failed to get sender account information"
MsgNoSender          == "sender bank account doesn't exists"
MsgReadSender        == "failed to read senderState"
MsgNotEnough         == "sender doesn't have enough money"
MsgGetReceiver       == "failed to get receiver account information"
MsgNoReceiver        == "receiver bank account doesn't exists"
MsgUpdateBalance     == "failed to update balance"
MsgReadHistory       == "failed to read history"
MsgHistoryNext       == "failed get Next() for historyIterator"
MsgUnknownOperation  == "unknown operation"

(***************************************************************************)
(* JSON text of an account: the members of one JSON object, in order.      *)
(* A member of kind "bad" stands for a syntax error at that place.         *)
(***************************************************************************)
Num(n, v) == [name |-> n, kind |-> "num", num |-> v, str |-> ""]
Str(n, s) == [name |-> n, kind |-> "str", num |-> 0, str |-> s]
Bad(n)    == [name |-> n, kind |-> "bad", num |-> 0, str |-> ""]

\* the zero value of BankAccount
ZeroAccount == [PersonID |-> 0, AccountNumber |-> "", Balance |-> 0]

\* The struct tags `json:person_id` lack the quotes, so encoding/json falls
\* back to the Go field names, matched exactly or case-insensitively.
FieldOfExact(name) ==
    IF name \in {"PersonID", "AccountNumber", "Balance"} THEN name ELSE ""

FieldOf(name) ==
    CASE name \in {"PersonID", "personid"}           -> "PersonID"
      [] name \in {"AccountNumber", "accountnumber"} -> "AccountNumber"
      [] name \in {"Balance", "balance"}             -> "Balance"
      [] OTHER                                       -> ""

\* one member decoded into the account; a value of the wrong JSON type (or a
\* negative number for the uint64) is skipped and reported
DecodeMember(acc, m) ==
    LET f == FieldOf(m.name) IN
    CASE f = "PersonID" ->
            IF m.kind = "num" /\ m.num >= 0
            THEN [acc EXCEPT !.account.PersonID = m.num]
            ELSE [acc EXCEPT !.err = TRUE]
      [] f = "AccountNumber" ->
            IF m.kind = "str"
            THEN [acc EXCEPT !.account.AccountNumber = m.str]
            ELSE [acc EXCEPT !.err = TRUE]
      [] f = "Balance" ->
            IF m.kind = "num"
            THEN [acc EXCEPT !.account.Balance = m.num]
            ELSE [acc EXCEPT !.err = TRUE]
      [] OTHER -> acc

RECURSIVE DecodeFrom(_, _, _)
DecodeFrom(doc, i, acc) ==
    IF i > Len(doc) THEN acc
    ELSE DecodeFrom(doc, i + 1, DecodeMember(acc, doc[i]))

\* json.Unmarshal(bytes, &account) into a zero BankAccount
Unmarshal(doc) ==
    IF \E i \in 1..Len(doc) : doc[i].kind = "bad"
    THEN [err |-> TRUE, account |-> ZeroAccount]
    ELSE DecodeFrom(doc, 1, [err |-> FALSE, account |-> ZeroAccount])

\* json.Marshal(account): the three fields under their Go names, in order
Marshal(account) ==
    << Num("PersonID", account.PersonID),
       Str("AccountNumber", account.AccountNumber),
       Num("Balance", account.Balance) >>

(***************************************************************************)
(* Number formatting and parsing; a text is a sequence of characters.      *)
(***************************************************************************)
Digits == <<"0", "1", "2", "3", "4", "5", "6", "7", "8", "9">>

IsDigit(c) == \E d \in 1..10 : Digits[d] = c

DigitVal(c) == (CHOOSE d \in 1..10 : Digits[d] = c) - 1

\* fmt.Sprintf("%d", n) for an unsigned n
RECURSIVE FormatUint(_)
FormatUint(n) ==
    IF n < 10 THEN <<Digits[n + 1]>>
    ELSE FormatUint(n \div 10) \o <<Digits[(n % 10) + 1]>>

RECURSIVE DigitsValue(_, _)
DigitsValue(s, acc) ==
    IF s = <<>> THEN acc
    ELSE DigitsValue(Tail(s), 10 * acc + DigitVal(Head(s)))

\* strconv.ParseFloat(text, 64) on texts of the form [+-]digits; every other
\* text of the model's inputs is one ParseFloat rejects
ParseFloat(s) ==
    LET signed == Len(s) > 0 /\ s[1] \in {"+", "-"}
        body   == IF signed THEN Tail(s) ELSE s
        sign   == IF signed /\ s[1] = "-" THEN -1 ELSE 1
    IN  IF body = <<>> \/ \E i \in 1..Len(body) : ~IsDigit(body[i])
        THEN [err |-> TRUE, value |-> 0]
        ELSE [err |-> FALSE, value |-> sign * DigitsValue(body, 0)]

(***************************************************************************)
(* Ledger port (stub.GetState / PutState / DelState) and registry port.    *)
(***************************************************************************)
NoLedger == [k \in {} |-> <<>>]

GetStateAlwaysFound(l, key, fault) ==
    [err |-> fault, found |-> ~fault,
     value |-> IF ~fault /\ key \in DOMAIN l THEN l[key] ELSE <<>>]
GetState(l, key, fault) ==
    IF fault THEN [err |-> TRUE, found |-> FALSE, value |-> <<>>]
    ELSE IF key \in DOMAIN l
         THEN [err |-> FALSE, found |-> TRUE, value |-> l[key]]
         ELSE [err |-> FALSE, found |-> FALSE, value |-> <<>>]

PutState(l, key, value, fault) ==
    IF fault THEN [err |-> TRUE, ledger |-> l]
    ELSE [err |-> FALSE,
          ledger |-> [k \in DOMAIN l \cup {key} |-> IF k = key THEN value ELSE l[k]]]

DelStateDespiteFault(l, key, fault) ==
    [err |-> fault, ledger |-> [k \in DOMAIN l \ {key} |-> l[k]]]
DelState(l, key, fault) ==
    IF fault THEN [err |-> TRUE, ledger |-> l]
    ELSE [err |-> FALSE, ledger |-> [k \in DOMAIN l \ {key} |-> l[k]]]

\* one entry of a key's history log (queryresult.KeyModification): the value
\* written, or no value and the deletion flag
Modification(value, isDelete) == [value |-> value, isDelete |-> isDelete]

\* a method called on a nil interface value: the invocation panics and no
\* response is returned
NilDereference ==
    [status |-> 0, message |-> "panic: nil pointer dereference", payload |-> <<>>]

\* one entry of the call log
Call(port, key, arg, err) == [port |-> port, key |-> key, arg |-> arg, err |-> err]

\* what a handler leaves behind: its response, the ledger, the calls it made
Outcome(result, l, cs) == [result |-> result, ledger |-> l, calls |-> cs]

(***************************************************************************)
(* The conditions the handlers branch on.                                  *)
(***************************************************************************)
\* response.Status == shim.ERROR
RegistryNeverRejected(status) == FALSE
RegistryRejected(status) == status = ERROR

\* accountState != nil in addAccount
AccountNeverExists(state) == FALSE
AccountExists(state) == state.found

\* accountState == nil in delAccount
AccountNeverMissing(state) == FALSE
AccountMissing(state) == ~state.found

\* accountState == nil in getBalance
BalanceMissing(state) == ~state.found

\* err != nil after strconv.ParseFloat
AmountNeverRejected(parsed) == FALSE
AmountRejected(parsed) == parsed.err

\* senderState == nil
SenderNeverMissing(state) == FALSE
SenderMissing(state) == ~state.found

\* senderAccount.Balance - amount < 0
NotEnoughMoneyOverdrawn(balance, amount) == balance < 0
NotEnoughMoney(balance, amount) == balance - amount < 0

\* receiverState == nil
ReceiverNeverMissing(state) == FALSE
ReceiverMissing(state) == ~state.found

\* senderAccount.Balance -= amount
DebitTwice(balance, amount) == balance - 2 * amount
Debit(balance, amount) == balance - amount

\* the sender's account after the debit: only the balance field is assigned
DebitedFresh(account, amount) ==
    [ZeroAccount EXCEPT !.Balance = Debit(account.Balance, amount)]
Debited(account, amount) == [account EXCEPT !.Balance = Debit(@, amount)]

\* receiverAccount.Balance += amount
CreditLost(balance, amount) == balance
Credit(balance, amount) == balance + amount

\* the receiver's account after the credit
CreditedNot(account, amount) == account
Credited(account, amount) == [account EXCEPT !.Balance = Credit(@, amount)]

(***************************************************************************)
(* The handlers of the `actions` table.  env.faults holds the ordinals of  *)
(* the ledger port calls of the invocation that fault; env.registry is the *)
(* status the person registry answers with.                                *)
(***************************************************************************)
addAccount(l, params, env) ==
    IF Len(params) # 1 THEN Outcome(Error(MsgWrongArguments), l, <<>>)
    ELSE
    LET dec == Unmarshal(params[1]) IN
    IF dec.err THEN Outcome(Error(MsgDeserialize), l, <<>>)
    ELSE
    LET account  == dec.account
        personID == FormatUint(account.PersonID)
        c1       == Call("InvokeChaincode", "personCC", <<"getPerson", personID>>,
                         env.registry = ERROR)
    IN
    IF RegistryRejected(env.registry)
    THEN Outcome(Error(MsgPersonRejected), l, <<c1>>)
    ELSE
    LET accountState == GetState(l, account.AccountNumber, 1 \in env.faults)
        c2           == Call("GetState", account.AccountNumber, <<>>, accountState.err)
    IN
    IF accountState.err THEN Outcome(Error(MsgCreateRead), l, <<c1, c2>>)
    ELSE IF AccountExists(accountState)
    THEN Outcome(Error(MsgAlreadyExists), l, <<c1, c2>>)
    ELSE
    LET put == PutState(l, account.AccountNumber, params[1], 2 \in env.faults)
        c3  == Call("PutState", account.AccountNumber, params[1], put.err)
    IN  \* the shim.Error built on a failed PutState is not returned
        Outcome(Success(<<>>), put.ledger, <<c1, c2, c3>>)

delAccount(l, params, env) ==
    IF Len(params) # 1 THEN Outcome(Error(MsgWrongParameters), l, <<>>)
    ELSE
    LET accountId    == params[1]
        accountState == GetState(l, accountId, 1 \in env.faults)
        c1           == Call("GetState", accountId, <<>>, accountState.err)
    IN
    IF accountState.err THEN Outcome(Error(MsgGetAccount), l, <<c1>>)
    ELSE IF AccountMissing(accountState)
    THEN Outcome(Error(MsgNoAccount), l, <<c1>>)
    ELSE
    LET del == DelState(l, accountId, 2 \in env.faults)
        c2  == Call("DelState", accountId, <<>>, del.err)
    IN
    IF del.err THEN Outcome(Error(MsgDelete), del.ledger, <<c1, c2>>)
    ELSE Outcome(Success(<<>>), del.ledger, <<c1, c2>>)

getBalance(l, params, env) ==
    IF Len(params) # 1 THEN Outcome(Error(MsgWrongParameters), l, <<>>)
    ELSE
    LET accountId    == params[1]
        accountState == GetState(l, accountId, 1 \in env.faults)
        c1           == Call("GetState", accountId, <<>>, accountState.err)
    IN
    IF accountState.err THEN Outcome(Error(MsgGetAccount), l, <<c1>>)
    ELSE IF BalanceMissing(accountState)
    THEN Outcome(Error(MsgNoAccount), l, <<c1>>)
    ELSE Outcome(Success(<<Unmarshal(accountState.value).account.Balance>>), l, <<c1>>)

transfer(l, params, env) ==
    IF Len(params) # 3
    THEN Outcome(Error(MsgWrongTransferArgs), l, <<>>)
    ELSE
    LET from   == params[1]
        to     == params[2]
        parsed == ParseFloat(params[3])
        amount == parsed.value
    IN
    IF AmountRejected(parsed) THEN Outcome(Error(MsgAmount), l, <<>>)
    ELSE
    LET senderState == GetState(l, from, 1 \in env.faults)
        c1          == Call("GetState", from, <<>>, senderState.err)
    IN
    IF senderState.err THEN Outcome(Error(MsgGetSender), l, <<c1>>)
    ELSE IF SenderMissing(senderState) THEN Outcome(Error(MsgNoSender), l, <<c1>>)
    ELSE
    LET sender        == Unmarshal(senderState.value)
        senderAccount == sender.account
    IN
    IF sender.err THEN Outcome(Error(MsgReadSender), l, <<c1>>)
    ELSE IF NotEnoughMoney(senderAccount.Balance, amount)
    THEN Outcome(Error(MsgNotEnough), l, <<c1>>)
    ELSE
    LET receiverState == GetState(l, to, 2 \in env.faults)
        c2            == Call("GetState", to, <<>>, receiverState.err)
    IN
    IF receiverState.err THEN Outcome(Error(MsgGetReceiver), l, <<c1, c2>>)
    ELSE IF ReceiverMissing(receiverState)
    THEN Outcome(Error(MsgNoReceiver), l, <<c1, c2>>)
    ELSE
    LET receiver        == Unmarshal(receiverState.value)
        receiverAccount == receiver.account
    IN
    IF receiver.err THEN Outcome(Error(MsgReadSender), l, <<c1, c2>>)
    ELSE
    LET newSender   == Debited(senderAccount, amount)
        newReceiver == Credited(receiverAccount, amount)
        put1        == PutState(l, from, Marshal(newSender), 3 \in env.faults)
        c3          == Call("PutState", from, Marshal(newSender), put1.err)
        put2        == PutState(put1.ledger, to, Marshal(newReceiver), 4 \in env.faults)
        c4          == Call("PutState", to, Marshal(newReceiver), put2.err)
    IN  \* neither shim.Error built on a failed PutState is returned
        Outcome(Success(<<>>), put2.ledger, <<c1, c2, c3, c4>>)

\* fmt.Sprintf("+%s", response.Value) or string(response.Value)
HistoryLine(response, nonNegative) ==
    [prefix |-> IF nonNegative THEN "+" ELSE "", text |-> response.value]

\* history = append(history, line)
PrependLine(history, line) == <<line>> \o history
AppendLine(history, line) == Append(history, line)

\* the loop over historyIterator: HasNext() holds while entries are left; the
\* i-th Next() is port call i + 1 of the invocation.  `response.Value >= 0`
\* compares bytes with a number: what it yields for the i-th entry is left to
\* the environment (env.nonNegative)
RECURSIVE IterateHistory(_, _, _, _, _, _)
IterateHistory(l, accountId, i, history, cs, env) ==
    IF i > Len(env.history) THEN Outcome(Success(history), l, cs)
    ELSE
    LET fault    == (i + 1) \in env.faults
        response == env.history[i]
        c        == Call("Next", accountId, IF fault THEN <<>> ELSE <<response>>, fault)
    IN
    IF fault THEN Outcome(Error(MsgHistoryNext), l, Append(cs, c))
    ELSE IterateHistory(l, accountId, i + 1,
                        AppendLine(history, HistoryLine(response, i \in env.nonNegative)),
                        Append(cs, c), env)

getHistory(l, params, env) ==
    IF Len(params) # 1 THEN Outcome(Error(MsgWrongParameters), l, <<>>)
    ELSE
    LET accountId == params[1]
        err       == 1 \in env.faults
        c1        == Call("GetHistoryForKey", accountId, <<>>, err)
    IN  \* the shim.Error built on a failed GetHistoryForKey is not returned: the
        \* loop runs on whatever iterator came with the error
        IF err /\ env.nilIterator THEN Outcome(NilDereference, l, <<c1>>)
        ELSE IterateHistory(l, accountId, 1, <<>>, <<c1>>, env)

(***************************************************************************)
(* bankManagement.Invoke: the dispatcher.                                  *)
(***************************************************************************)
ActionNames == {"addAccount", "delAccount", "getBalance", "transfer", "getHistory"}

\* action, exists := actions[funcName]
ActionAlwaysExists(funcName) == TRUE
ActionExists(funcName) == funcName \in ActionNames

Invoke(l, funcName, params, env) ==
    IF ~ActionExists(funcName) THEN Outcome(Error(MsgUnknownOperation), l, <<>>)
    ELSE CASE funcName = "addAccount" -> addAccount(l, params, env)
           [] funcName = "delAccount" -> delAccount(l, params, env)
           [] funcName = "getBalance" -> getBalance(l, params, env)
           [] funcName = "transfer"   -> transfer(l, params, env)
           [] OTHER                   -> getHistory(l, params, env)

(***************************************************************************)
(* The inputs the invocations are drawn from.                              *)
(***************************************************************************)
AccountNumbers == {"ACC-1", "ACC-2"}

OpeningBalances == {0, 100}

\* the account as a client that marshals a BankAccount sends it
Canonical(p, a, b) == Marshal([PersonID |-> p, AccountNumber |-> a, Balance |-> b])

\* lower-case member names in another order, and a member the struct lacks
Relaxed(p, a, b) ==
    << Str("accountnumber", a), Num("balance", b), Str("note", "x"), Num("personid", p) >>

\* a repeated member: the last one wins
Repeated(p, a, b) ==
    << Num("PersonID", p), Str("AccountNumber", a), Num("Balance", 0), Num("Balance", b) >>

\* the owner each account number is opened for
OwnerOf(a) == IF a = "ACC-1" THEN 42 ELSE 43

\* the well-formed accounts the clients submit: the text and what it says
Submitted(doc, p, a, b) ==
    [doc |-> doc, personId |-> p, accountNumber |-> a, balance |-> b]

Submissions ==
    { Submitted(Canonical(OwnerOf(a), a, b), OwnerOf(a), a, b) :
          a \in AccountNumbers, b \in OpeningBalances }
    \cup { Submitted(Relaxed(43, "ACC-2", 100), 43, "ACC-2", 100),
           Submitted(Repeated(42, "ACC-1", 100), 42, "ACC-1", 100) }

SerializedAccounts == { s.doc : s \in Submissions }

MalformedAccounts ==
    { << Num("PersonID", 42), Bad("AccountNumber") >>,
      << Num("PersonID", 42), Str("AccountNumber", "ACC-1"), Str("Balance", "100") >>,
      << Num("PersonID", -1), Str("AccountNumber", "ACC-1"), Num("Balance", 100) >>,
      << Num("PersonID", 42), Num("AccountNumber", 1), Num("Balance", 100) >> }

\* account numbers passed to delAccount, getBalance and transfer
AccountIds == AccountNumbers

AmountTexts ==
    { <<"5", "0">>, <<"-", "5", "0">>, <<"2", "0", "0">>, <<"5", "0", "x">>,
      <<"a", "b", "c">> }

AddAccountParams ==
    { <<d>> : d \in SerializedAccounts \cup MalformedAccounts }
    \cup { <<>>, <<Canonical(42, "ACC-1", 100), Canonical(43, "ACC-2", 0)>> }

OneIdParams == { <<a>> : a \in AccountIds } \cup { <<>>, <<"ACC-1", "ACC-2">> }

TransferParams ==
    { <<f, t, x>> : f \in AccountIds, t \in AccountIds, x \in AmountTexts }
    \cup { <<"ACC-1", "ACC-2">>, <<"ACC-1", "ACC-2", <<"5", "0">>, "ACC-1">> }

\* the environments of one invocation: the registry's answer and the ledger
\* port calls that fault (a fault on a call that is never issued changes nothing)
AddAccountEnvs ==
    [registry : {OK}, faults : {{}, {1}, {2}}] \cup [registry : {ERROR}, faults : {{}}]

DelAccountEnvs == [registry : {OK}, faults : {{}, {1}, {2}}]

GetBalanceEnvs == [registry : {OK}, faults : {{}, {1}}]

TransferEnvs == [registry : {OK}, faults : {{}, {1}, {2}, {3}, {4}, {3, 4}}]

\* what the history log of a key may hold below its newest entry: nothing, the
\* creation, a transfer after the creation, or a creation that was deleted
OlderLogs(a) ==
    LET opened == Modification(Canonical(OwnerOf(a), a, 100), FALSE)
        moved  == Modification(Canonical(OwnerOf(a), a, 50), FALSE)
        gone   == Modification(<<>>, TRUE)
    IN  { <<>>, <<opened>>, <<moved, opened>>, <<gone, opened>> }

\* the history logs of a key that agree with the ledger: the newest entry is
\* the stored value, or a deletion (or nothing at all) when the key is absent;
\* a deletion follows a value, and bytes only addAccount stores follow a
\* deletion or nothing
HistoryLogs(l, a) ==
    IF a \notin AccountNumbers THEN { <<>> }
    ELSE IF a \in DOMAIN l
    THEN { <<Modification(l[a], FALSE)>> \o o : o \in
             { o \in OlderLogs(a) :
                 l[a] = Marshal(Unmarshal(l[a]).account) \/ o = <<>> \/ o[1].isDelete } }
    ELSE { <<>> } \cup
         { <<Modification(<<>>, TRUE)>> \o o : o \in
             { o \in OlderLogs(a) : o # <<>> /\ ~o[1].isDelete } }

\* the entries for which the byte comparison of the loop holds
SignPatterns == { {}, {1}, {1, 2, 3} }

\* the environments of a getHistory: the log the port iterates, the calls that
\* fault (1: GetHistoryForKey, i + 1: the i-th Next), the outcome of the byte
\* comparisons, and whether a failed GetHistoryForKey hands back a nil iterator
GetHistoryEnvs(l, params) ==
    LET logs == IF Len(params) = 1 THEN HistoryLogs(l, params[1]) ELSE { <<>> } IN
    [registry : {OK}, history : logs, faults : {{}}, nonNegative : SignPatterns,
     nilIterator : {TRUE}]
    \cup [registry : {OK}, history : logs, faults : {{1}}, nonNegative : {{1, 2, 3}},
          nilIterator : BOOLEAN]
    \cup [registry : {OK}, history : logs, faults : {{2}, {4}}, nonNegative : {{1, 2, 3}},
          nilIterator : {TRUE}]

\* names the `actions` table does not hold
UnknownNames == {"getAccount", "Transfer", ""}

UnknownParams == { <<>>, <<"ACC-1">>, <<"ACC-1", "ACC-2", <<"5", "0">>>> }

UnknownEnvs == [registry : {OK}, faults : {{}}]

\* every stored balance within the explored range
InBounds(l) ==
    \A k \in DOMAIN l :
        LET b == Unmarshal(l[k]).account.Balance IN -MaxOverdraft <= b /\ b <= MaxBalance

(***************************************************************************)
(* The state machine: one action per operation of the dispatcher.          *)
(***************************************************************************)
\* bankManagement.Init answers Success(nil) and touches nothing
\* no transfer stands between its two writes
NoTransfer == [params |-> <<>>, result |-> Success(<<>>), calls |-> <<>>]

Init ==
    /\ ledger = NoLedger
    /\ last = [op |-> "Init", params |-> <<>>, result |-> Success(<<>>)]
    /\ calls = <<>>
    /\ inflight = NoTransfer
    /\ atomic = TRUE

\* the handler ran to completion and its response was returned
Invoked(op, params, out) ==
    /\ InBounds(out.ledger)
    /\ ledger' = out.ledger
    /\ last' = [op |-> op, params |-> params, result |-> out.result]
    /\ calls' = out.calls
    /\ UNCHANGED <<inflight, atomic>>

AddAccount ==
    \E params \in AddAccountParams, env \in AddAccountEnvs :
        Invoked("addAccount", params, Invoke(ledger, "addAccount", params, env))

DelAccount ==
    \E params \in OneIdParams, env \in DelAccountEnvs :
        Invoked("delAccount", params, Invoke(ledger, "delAccount", params, env))

GetBalance ==
    \E params \in OneIdParams, env \in GetBalanceEnvs :
        Invoked("getBalance", params, Invoke(ledger, "getBalance", params, env))

Transfer ==
    \E params \in TransferParams, env \in TransferEnvs :
        Invoked("transfer", params, Invoke(ledger, "transfer", params, env))

GetHistory ==
    \E params \in OneIdParams :
        \E env \in GetHistoryEnvs(ledger, params) :
            Invoked("getHistory", params, Invoke(ledger, "getHistory", params, env))

\* an operation name without a handler
Unknown ==
    \E funcName \in UnknownNames, params \in UnknownParams, env \in UnknownEnvs :
        Invoked(funcName, params, Invoke(ledger, funcName, params, env))

Next == AddAccount \/ DelAccount \/ GetBalance \/ Transfer \/ GetHistory \/ Unknown

Spec == Init /\ [][Next]_vars

(***************************************************************************)
(* The same handlers on a platform that may run the port calls of another  *)
(* invocation between the two PutState calls of a transfer (lines 134 and  *)
(* 137): a transfer that reaches its writes is then two steps.  Two        *)
(* accounts, transfers between them, no port faults.                       *)
(***************************************************************************)
StepEnv == [registry |-> OK, faults |-> {}]

\* ACC-1 is opened with the larger and ACC-2 with the smaller opening balance
StepOpening(a) ==
    IF a = "ACC-1"
    THEN CHOOSE b \in OpeningBalances : \A c \in OpeningBalances : c <= b
    ELSE CHOOSE b \in OpeningBalances : \A c \in OpeningBalances : b <= c

StepAccountParams == { <<Canonical(OwnerOf(a), a, StepOpening(a))>> : a \in AccountNumbers }

StepIdParams == { <<a>> : a \in AccountIds } \cup { <<>> }

StepTransferParams ==
    { <<f, t, x>> : f \in AccountIds, t \in AccountIds,
                    x \in { <<"5", "0">>, <<"2", "0", "0">> } } \
    { <<a, a, x>> : a \in AccountIds, x \in AmountTexts }

\* the ledger after the PutState recorded as call c
AfterWrite(l, c) == PutState(l, c.key, c.arg, c.err).ledger

InitSteps ==
    /\ ledger = NoLedger
    /\ last = [op |-> "Init", params |-> <<>>, result |-> Success(<<>>)]
    /\ calls = <<>>
    /\ inflight = NoTransfer
    /\ atomic \in BOOLEAN

StepAddAccount ==
    \E params \in StepAccountParams :
        Invoked("addAccount", params, Invoke(ledger, "addAccount", params, StepEnv))

StepGetBalance ==
    \E params \in StepIdParams :
        Invoked("getBalance", params, Invoke(ledger, "getBalance", params, StepEnv))

\* the platform runs the whole transfer as one step
StepTransfer ==
    /\ atomic
    /\ \E params \in StepTransferParams :
          Invoked("transfer", params, Invoke(ledger, "transfer", params, StepEnv))

\* the transfer up to and including its first PutState (line 134); one that
\* returns before its writes is complete at once
TransferBegin ==
    /\ ~atomic
    /\ inflight = NoTransfer
    /\ \E params \in StepTransferParams :
          LET out == Invoke(ledger, "transfer", params, StepEnv) IN
          IF Len(out.calls) < 4
          THEN Invoked("transfer", params, out)
          ELSE /\ InBounds(out.ledger)
               /\ ledger' = AfterWrite(ledger, out.calls[3])
               /\ inflight' = [params |-> params, result |-> out.result, calls |-> out.calls]
               /\ UNCHANGED <<last, calls, atomic>>

\* its second PutState (line 137) and the return (line 141)
TransferFinish ==
    /\ inflight # NoTransfer
    /\ ledger' = AfterWrite(ledger, inflight.calls[4])
    /\ last' = [op |-> "transfer", params |-> inflight.params, result |-> inflight.result]
    /\ calls' = inflight.calls
    /\ inflight' = NoTransfer
    /\ UNCHANGED atomic

NextSteps ==
    StepAddAccount \/ StepGetBalance \/ StepTransfer \/ TransferBegin \/ TransferFinish

SpecSteps == InitSteps /\ [][NextSteps]_vars

TypeOK ==
    /\ DOMAIN ledger \subseteq AccountIds
    /\ last.result.status \in {OK, ERROR, NilDereference.status}
    /\ Len(calls) <= 4
    /\ InBounds(ledger)
    /\ atomic \in BOOLEAN
    /\ inflight = NoTransfer \/ (~atomic /\ Len(inflight.calls) = 4)

(***************************************************************************)
(* Vocabulary of the properties.                                           *)
(***************************************************************************)
\* no port call of the invocation reported a fault or a rejection
NoFault(cs) == \A i \in 1..Len(cs) : ~cs[i].err

\* the balance the record under k decodes to
BalanceAt(l, k) == Unmarshal(l[k]).account.Balance

\* the stored bytes under k, or nothing
RecordAt(l, k) == IF k \in DOMAIN l THEN <<l[k]>> ELSE <<>>

\* the invocation issued a ledger write
Wrote(cs) == \E i \in 1..Len(cs) : cs[i].port \in {"PutState", "DelState"}

\* a ledger write of the invocation reported a fault
WriteFaulted(cs) == \E i \in 1..Len(cs) : cs[i].port = "PutState" /\ cs[i].err

\* the amount a numeric text of the inputs denotes
AmountOf(text) ==
    CASE text = <<"5", "0">>      -> 50
      [] text = <<"-", "5", "0">> -> -50
      [] text = <<"2", "0", "0">> -> 200

NumericTexts == { <<"5", "0">>, <<"-", "5", "0">>, <<"2", "0", "0">> }

(***************************************************************************)
(* C1: a transfer of amt between two distinct existing accounts, the       *)
(* sender holding at least amt and no port call faulting, succeeds; the    *)
(* sender's balance is amt lower, the receiver's amt higher, their sum as  *)
(* before.                                                                 *)
(***************************************************************************)
TransferMovesStep ==
    ( /\ last'.op = "transfer"
      /\ Len(last'.params) = 3
      /\ last'.params[3] \in NumericTexts
      /\ last'.params[1] # last'.params[2]
      /\ last'.params[1] \in DOMAIN ledger
      /\ last'.params[2] \in DOMAIN ledger
      /\ BalanceAt(ledger, last'.params[1]) >= AmountOf(last'.params[3])
      /\ NoFault(calls') )
    => LET A   == last'.params[1]
           B   == last'.params[2]
           amt == AmountOf(last'.params[3])
       IN  /\ last'.result = Success(<<>>)
           /\ A \in DOMAIN ledger' /\ B \in DOMAIN ledger'
           /\ BalanceAt(ledger', A) = BalanceAt(ledger, A) - amt
           /\ BalanceAt(ledger', B) = BalanceAt(ledger, B) + amt
           /\ BalanceAt(ledger', A) + BalanceAt(ledger', B)
                = BalanceAt(ledger, A) + BalanceAt(ledger, B)

InsufficientStep ==
    ( /\ last'.op = "transfer"
      /\ Len(last'.params) = 3
      /\ last'.params[3] \in NumericTexts
      /\ last'.params[1] \in DOMAIN ledger
      /\ BalanceAt(ledger, last'.params[1]) < AmountOf(last'.params[3])
      /\ NoFault(calls') )
    => /\ last'.result = Error(MsgNotEnough)
       /\ RecordAt(ledger', last'.params[1]) = RecordAt(ledger, last'.params[1])
       /\ RecordAt(ledger', last'.params[2]) = RecordAt(ledger, last'.params[2])

C2_InsufficientFunds == [][InsufficientStep]_vars

C2_Witness ==
    /\ last.op = "transfer"
    /\ last.params = <<"ACC-1", "ACC-2", <<"2", "0", "0">>>>
    /\ last.result = Error(MsgNotEnough)
    /\ DOMAIN ledger = {"ACC-1", "ACC-2"}
    /\ BalanceAt(ledger, "ACC-1") = 100

(***************************************************************************)
(* C3: a transfer in which a ledger write reported a fault returns the     *)
(* StorageWriteError failure, never a success.                             *)
(***************************************************************************)
C3_TransferWriteFaultSurfaces ==
    (last.op = "transfer" /\ WriteFaulted(calls))
    => last.result = Error(MsgUpdateBalance)

(***************************************************************************)
(* C4: an addAccount whose ledger write reported a fault returns the       *)
(* StorageWriteError failure, not a success.                               *)
(***************************************************************************)
C4_AddAccountWriteFaultSurfaces ==
    (last.op = "addAccount" /\ WriteFaulted(calls))
    => last.result = Error(MsgSave)

(***************************************************************************)
(* C5: an addAccount for an account number that already holds a record     *)
(* returns the AlreadyExists failure and leaves that record byte for byte  *)
(* as it was, whatever the submitted account says.                         *)
(***************************************************************************)
\* a ledger port call of the invocation faulted
LedgerFault(cs) == \E i \in 1..Len(cs) : cs[i].port # "InvokeChaincode" /\ cs[i].err

\* as claimed: for every submitted account, the registry's answer included
AlreadyExistsAlwaysStep ==
    \A s \in Submissions :
        ( /\ last'.op = "addAccount"
          /\ last'.params = <<s.doc>>
          /\ s.accountNumber \in DOMAIN ledger
          /\ ~LedgerFault(calls') )
        => /\ last'.result = Error(MsgAlreadyExists)
           /\ RecordAt(ledger', s.accountNumber) = RecordAt(ledger, s.accountNumber)

C5_AlreadyExistsAlways == [][AlreadyExistsAlwaysStep]_vars

\* as amended: AlreadyExists once the registry accepted the person; the record
\* is kept whatever the invocation returns
AlreadyExistsStep ==
    \A s \in Submissions :
        ( /\ last'.op = "addAccount"
          /\ last'.params = <<s.doc>>
          /\ s.accountNumber \in DOMAIN ledger )
        => /\ NoFault(calls') => last'.result = Error(MsgAlreadyExists)
           /\ RecordAt(ledger', s.accountNumber) = RecordAt(ledger, s.accountNumber)

C5_AlreadyExists == [][AlreadyExistsStep]_vars

\* rejected although the submitted bytes differ from the stored ones
C5_Witness ==
    /\ last.op = "addAccount"
    /\ last.params = <<Canonical(42, "ACC-1", 0)>>
    /\ last.result = Error(MsgAlreadyExists)
    /\ "ACC-1" \in DOMAIN ledger
    /\ ledger["ACC-1"] = Repeated(42, "ACC-1", 100)

(***************************************************************************)
(* C6: an addAccount whose person the registry rejects returns the         *)
(* PersonValidationError failure and issues no ledger write, whether or    *)
(* not the account number is fresh.                                        *)
(***************************************************************************)
PersonRejectedStep ==
    ( /\ last'.op = "addAccount"
      /\ \E s \in Submissions : last'.params = <<s.doc>>
      /\ Len(calls') >= 1
      /\ calls'[1].port = "InvokeChaincode"
      /\ calls'[1].err )
    => /\ last'.result = Error(MsgPersonRejected)
       /\ ~Wrote(calls')
       /\ ledger' = ledger

C6_PersonRejected == [][PersonRejectedStep]_vars

\* rejected for a fresh account number
C6_Witness ==
    /\ last.op = "addAccount"
    /\ last.params = <<Canonical(43, "ACC-2", 100)>>
    /\ last.result = Error(MsgPersonRejected)
    /\ calls[1].err
    /\ DOMAIN ledger = {"ACC-1"}

(***************************************************************************)
(* C7: an addAccount of a well-formed account with an accepted person and  *)
(* a fresh account number succeeds (no port call faulting), and the        *)
(* getBalance issued next on that number returns the submitted balance.    *)
(***************************************************************************)
AddThenBalanceStep ==
    \A s \in Submissions :
        /\ ( /\ last'.op = "addAccount"
             /\ last'.params = <<s.doc>>
             /\ s.accountNumber \notin DOMAIN ledger
             /\ NoFault(calls') )
           => last'.result = Success(<<>>)
        /\ ( /\ last.op = "addAccount"
             /\ last.params = <<s.doc>>
             /\ last.result.status = OK
             /\ NoFault(calls)
             /\ last'.op = "getBalance"
             /\ last'.params = <<s.accountNumber>>
             /\ NoFault(calls') )
           => last'.result = Success(<<s.balance>>)

DeleteStep ==
    /\ ( /\ last'.op = "delAccount"
         /\ Len(last'.params) = 1
         /\ NoFault(calls') )
       => IF last'.params[1] \in DOMAIN ledger
          THEN last'.result = Success(<<>>)
          ELSE last'.result = Error(MsgNoAccount)
    /\ ( /\ last.op = "delAccount"
         /\ Len(last.params) = 1
         /\ last.result.status = OK
         /\ last'.op = "getBalance"
         /\ last'.params = last.params
         /\ NoFault(calls') )
       => last'.result = Error(MsgNoAccount)

C8_DeleteThenNotFound == [][DeleteStep]_vars

\* a record deleted while the other account stays
C8_Witness ==
    /\ last.op = "delAccount"
    /\ last.params = <<"ACC-1">>
    /\ last.result = Success(<<>>)
    /\ Len(calls) = 2
    /\ calls[2].port = "DelState"
    /\ DOMAIN ledger = {"ACC-2"}

(***************************************************************************)
(* C9: a transfer whose third argument is no number returns the            *)
(* AmountParseError failure without issuing any port call.                 *)
(***************************************************************************)
AmountParseStep ==
    ( /\ last'.op = "transfer"
      /\ Len(last'.params) = 3
      /\ last'.params[3] \notin NumericTexts )
    => /\ last'.result = Error(MsgAmount)
       /\ calls' = <<>>
       /\ ledger' = ledger

C9_AmountParsedFirst == [][AmountParseStep]_vars

\* rejected although both accounts exist and the sender holds 100
C9_Witness ==
    /\ last.op = "transfer"
    /\ last.params = <<"ACC-1", "ACC-2", <<"5", "0", "x">>>>
    /\ last.result = Error(MsgAmount)
    /\ calls = <<>>
    /\ DOMAIN ledger = {"ACC-1", "ACC-2"}
    /\ BalanceAt(ledger, "ACC-1") = 100

(***************************************************************************)
(* C10: a transfer from an existing sender with a sufficient balance to a  *)
(* key without a record returns the receiver's NotFound failure and        *)
(* issues no write: the sender is not debited.                             *)
(***************************************************************************)
ReceiverAbsentStep ==
    ( /\ last'.op = "transfer"
      /\ Len(last'.params) = 3
      /\ last'.params[3] \in NumericTexts
      /\ last'.params[1] \in DOMAIN ledger
      /\ BalanceAt(ledger, last'.params[1]) >= AmountOf(last'.params[3])
      /\ last'.params[2] \notin DOMAIN ledger
      /\ NoFault(calls') )
    => /\ last'.result = Error(MsgNoReceiver)
       /\ ~Wrote(calls')
       /\ ledger' = ledger

C10_ReceiverAbsent == [][ReceiverAbsentStep]_vars

C10_Witness ==
    /\ last.op = "transfer"
    /\ last.params = <<"ACC-1", "ACC-2", <<"5", "0">>>>
    /\ last.result = Error(MsgNoReceiver)
    /\ DOMAIN ledger = {"ACC-1"}
    /\ BalanceAt(ledger, "ACC-1") = 100

(***************************************************************************)
(* C11: for a key whose history log holds, newest first, a deletion, the   *)
(* snapshot a transfer wrote and the snapshot of the creation, getHistory  *)
(* returns exactly three lines in that order, and the first one, the       *)
(* deletion's, carries no value and differs from both snapshot lines.      *)
(***************************************************************************)
\* the entry the i-th Next() of the last invocation returned
Iterated(i) == calls[i + 1].arg[1]

C11_HistoryOfDeletedAccount ==
    ( /\ last.op = "getHistory"
      /\ Len(calls) = 4
      /\ NoFault(calls)
      /\ Iterated(1).isDelete
      /\ ~Iterated(2).isDelete
      /\ ~Iterated(3).isDelete
      /\ Unmarshal(Iterated(2).value).account.Balance
            # Unmarshal(Iterated(3).value).account.Balance )
    => /\ last.result.status = OK
       /\ Len(last.result.payload) = 3
       /\ \A i \in 1..3 : last.result.payload[i].text = Iterated(i).value
       /\ last.result.payload[1].text = <<>>
       /\ last.result.payload[2].text # <<>>
       /\ last.result.payload[3].text # <<>>
       /\ last.result.payload[1] \notin {last.result.payload[2], last.result.payload[3]}

\* ACC-1 opened with 100, debited to 50 by a transfer, then deleted
C11_Witness ==
    /\ last.op = "getHistory"
    /\ last.params = <<"ACC-1">>
    /\ last.result.status = OK
    /\ "ACC-1" \notin DOMAIN ledger
    /\ Len(last.result.payload) = 3
    /\ last.result.payload[1].text = <<>>
    /\ last.result.payload[2].text = Canonical(42, "ACC-1", 50)
    /\ last.result.payload[3].text = Canonical(42, "ACC-1", 100)

(***************************************************************************)
(* C12: a getHistory whose GetHistoryForKey fails returns the              *)
(* HistoryUnavailable failure without iterating, and one whose Next()      *)
(* fails returns the HistoryReadError failure.                             *)
(***************************************************************************)
C12_HistoryFaultsSurface ==
    (last.op = "getHistory" /\ Len(calls) >= 1)
    => /\ calls[1].err => (last.result = Error(MsgReadHistory) /\ Len(calls) = 1)
       /\ \A i \in 2..Len(calls) : calls[i].err => last.result = Error(MsgHistoryNext)

\* the half of C12 about Next() alone
NextFaultSurfaces ==
    (last.op = "getHistory" /\ Len(calls) >= 1 /\ ~calls[1].err)
    => \A i \in 2..Len(calls) : calls[i].err => last.result = Error(MsgHistoryNext)

(***************************************************************************)
(* C13: an operation name outside the five of the table returns the        *)
(* UnknownOperation failure with no port call and the ledger unchanged; a  *)
(* name of the table gets exactly what its handler leaves behind.          *)
(***************************************************************************)
\* the handler and the environments of a name of the table
HandlerOf(op, l, params, env) ==
    CASE op = "addAccount" -> addAccount(l, params, env)
      [] op = "delAccount" -> delAccount(l, params, env)
      [] op = "getBalance" -> getBalance(l, params, env)
      [] op = "transfer"   -> transfer(l, params, env)
      [] op = "getHistory" -> getHistory(l, params, env)

EnvsOf(op, l, params) ==
    CASE op = "addAccount" -> AddAccountEnvs
      [] op = "delAccount" -> DelAccountEnvs
      [] op = "getBalance" -> GetBalanceEnvs
      [] op = "transfer"   -> TransferEnvs
      [] op = "getHistory" -> GetHistoryEnvs(l, params)

DispatchStep ==
    /\ last'.op \notin ActionNames
       => /\ last'.result = Error(MsgUnknownOperation)
          /\ calls' = <<>>
          /\ ledger' = ledger
    /\ last'.op \in ActionNames
       => \E env \in EnvsOf(last'.op, ledger, last'.params) :
             Outcome(last'.result, ledger', calls')
                = HandlerOf(last'.op, ledger, last'.params, env)

C13_Dispatch == [][DispatchStep]_vars

\* "Transfer" is no name of the table, although the transfer would go through
C13_Witness ==
    /\ last.op = "Transfer"
    /\ last.params = <<"ACC-1", "ACC-2", <<"5", "0">>>>
    /\ last.result = Error(MsgUnknownOperation)
    /\ calls = <<>>
    /\ DOMAIN ledger = {"ACC-1", "ACC-2"}
    /\ BalanceAt(ledger, "ACC-1") = 100

(***************************************************************************)
(* C15: transfer checks the argument count, then the amount, then the      *)
(* sender, then the sufficiency, then the receiver: with the sender        *)
(* present, its balance below the amount and the receiver absent it        *)
(* returns the InsufficientFunds failure and never reads the receiver key. *)
(***************************************************************************)
\* the invocation read key k from the ledger
ReadKey(cs, k) == \E i \in 1..Len(cs) : cs[i].port = "GetState" /\ cs[i].key = k

CheckOrderStep ==
    last'.op = "transfer" =>
      /\ Len(last'.params) # 3
         => (last'.result = Error(MsgWrongTransferArgs) /\ calls' = <<>>)
      /\ (Len(last'.params) = 3 /\ last'.params[3] \in NumericTexts /\ NoFault(calls'))
         => LET A   == last'.params[1]
                B   == last'.params[2]
                amt == AmountOf(last'.params[3])
            IN  /\ A \notin DOMAIN ledger
                   => (last'.result = Error(MsgNoSender) /\ Len(calls') = 1)
                /\ ( /\ A \in DOMAIN ledger
                     /\ BalanceAt(ledger, A) < amt
                     /\ B \notin DOMAIN ledger )
                   => /\ last'.result = Error(MsgNotEnough)
                      /\ ~ReadKey(calls', B)
                      /\ ReadKey(calls', A)
                      /\ ledger' = ledger

C15_CheckOrder == [][CheckOrderStep]_vars

\* ACC-1 holds 0, ACC-2 was never opened, 50 asked for
C15_Witness ==
    /\ last.op = "transfer"
    /\ last.params = <<"ACC-1", "ACC-2", <<"5", "0">>>>
    /\ last.result = Error(MsgNotEnough)
    /\ DOMAIN ledger = {"ACC-1"}
    /\ BalanceAt(ledger, "ACC-1") = 0
    /\ ~ReadKey(calls, "ACC-2")

(***************************************************************************)
(* C16: from a ledger in which every stored balance is non-negative, an    *)
(* invocation that is not a transfer of a negative amount leads to a       *)
(* ledger in which every stored balance is non-negative; the empty ledger  *)
(* and accounts opened with non-negative balances start that way.          *)
(***************************************************************************)
NonNegative(l) == \A k \in DOMAIN l : BalanceAt(l, k) >= 0

NegativeTransfer(invocation) ==
    /\ invocation.op = "transfer"
    /\ Len(invocation.params) = 3
    /\ invocation.params[3] \in NumericTexts
    /\ AmountOf(invocation.params[3]) < 0

NonNegativeStep ==
    (NonNegative(ledger) /\ ~NegativeTransfer(last')) => NonNegative(ledger')

C16_NoOverdraft ==
    /\ NonNegative(NoLedger)
    /\ \A s \in Submissions : s.balance >= 0
    /\ [][NonNegativeStep]_vars

\* the sender is taken down to exactly zero
C16_Witness ==
    /\ last.op = "transfer"
    /\ last.params = <<"ACC-1", "ACC-2", <<"5", "0">>>>
    /\ last.result = Success(<<>>)
    /\ NoFault(calls)
    /\ DOMAIN ledger = {"ACC-1", "ACC-2"}
    /\ BalanceAt(ledger, "ACC-1") = 0
    /\ BalanceAt(ledger, "ACC-2") = 100

(***************************************************************************)
(* C17: a successful transfer leaves the sum of the balances of all        *)
(* existing accounts as it was, also when sender and receiver are the      *)
(* same account.                                                           *)
(***************************************************************************)
RECURSIVE SumOver(_, _)
SumOver(l, keys) ==
    IF keys = {} THEN 0
    ELSE LET k == CHOOSE x \in keys : TRUE IN BalanceAt(l, k) + SumOver(l, keys \ {k})

TotalBalance(l) == SumOver(l, DOMAIN l)

ConservedStep ==
    (last'.op = "transfer" /\ last'.result = Success(<<>>) /\ NoFault(calls'))
    => TotalBalance(ledger') = TotalBalance(ledger)

C17_TransferConserves == [][ConservedStep]_vars

\* the same between two distinct accounts
ConservedBetweenTwoStep ==
    ( /\ last'.op = "transfer" /\ last'.result = Success(<<>>) /\ NoFault(calls')
      /\ last'.params[1] # last'.params[2] )
    => TotalBalance(ledger') = TotalBalance(ledger)

ConservedBetweenTwo == [][ConservedBetweenTwoStep]_vars

\* ACC-1 holding 50 sends 50 to itself and holds 100
SelfTransferGains ==
    /\ last.op = "transfer"
    /\ last.params = <<"ACC-1", "ACC-1", <<"5", "0">>>>
    /\ last.result = Success(<<>>)
    /\ NoFault(calls)
    /\ Unmarshal(calls[3].arg).account.Balance = 0
    /\ BalanceAt(ledger, "ACC-1") = 100

(***************************************************************************)
(* C18: an invocation that returns a failure leaves the ledger exactly as  *)
(* it was before it.                                                       *)
(***************************************************************************)
FailureStep == last'.result.status = ERROR => ledger' = ledger

C18_FailureChangesNothing == [][FailureStep]_vars

\* a delete whose DelState faulted
C18_Witness ==
    /\ last.op = "delAccount"
    /\ last.params = <<"ACC-1">>
    /\ last.result = Error(MsgDelete)
    /\ Len(calls) = 2
    /\ calls[2].port = "DelState"
    /\ calls[2].err
    /\ "ACC-1" \in DOMAIN ledger

(***************************************************************************)
(* C19: the set of keys holding a record changes only by a successful      *)
(* addAccount, which adds exactly its account number, and a successful     *)
(* delAccount, which removes exactly its argument; transfer keeps the key  *)
(* set, getBalance and getHistory keep the whole ledger.                   *)
(***************************************************************************)
KeySetStep ==
    /\ DOMAIN ledger' # DOMAIN ledger
       => \/ /\ last'.op = "addAccount"
             /\ last'.result = Success(<<>>)
             /\ \E s \in Submissions :
                   /\ last'.params = <<s.doc>>
                   /\ s.accountNumber \notin DOMAIN ledger
                   /\ DOMAIN ledger' = DOMAIN ledger \cup {s.accountNumber}
          \/ /\ last'.op = "delAccount"
             /\ last'.result = Success(<<>>)
             /\ Len(last'.params) = 1
             /\ last'.params[1] \in DOMAIN ledger
             /\ DOMAIN ledger' = DOMAIN ledger \ {last'.params[1]}
    /\ last'.op = "addAccount"
       => \A k \in DOMAIN ledger : k \in DOMAIN ledger' /\ ledger'[k] = ledger[k]
    /\ last'.op = "delAccount"
       => \A k \in DOMAIN ledger' : k \in DOMAIN ledger /\ ledger'[k] = ledger[k]
    /\ last'.op = "transfer" => DOMAIN ledger' = DOMAIN ledger
    /\ last'.op \in {"getBalance", "getHistory"} => ledger' = ledger

C19_KeySet == [][KeySetStep]_vars

\* a transfer back to ACC-1 between the same two keys
C19_Witness ==
    /\ last.op = "transfer"
    /\ last.params = <<"ACC-2", "ACC-1", <<"5", "0">>>>
    /\ last.result = Success(<<>>)
    /\ NoFault(calls)
    /\ DOMAIN ledger = {"ACC-1", "ACC-2"}
    /\ BalanceAt(ledger, "ACC-1") = 100
    /\ BalanceAt(ledger, "ACC-2") = 0

(***************************************************************************)
(* C20: the record stored under a key decodes to an account whose          *)
(* AccountNumber is that key and whose PersonID is the one it was opened   *)
(* with: transfer rewrites the balance field only.                         *)
(***************************************************************************)
C20_RecordsKeepIdentity ==
    \A k \in DOMAIN ledger :
        LET stored == Unmarshal(ledger[k]) IN
        /\ ~stored.err
        /\ stored.account.AccountNumber = k
        /\ stored.account.PersonID = OwnerOf(k)

\* both records rewritten by a transfer from ACC-2 to ACC-1
C20_Witness ==
    /\ last.op = "transfer"
    /\ last.params = <<"ACC-2", "ACC-1", <<"5", "0">>>>
    /\ last.result = Success(<<>>)
    /\ NoFault(calls)
    /\ ledger["ACC-1"] = Canonical(42, "ACC-1", 50)
    /\ ledger["ACC-2"] = Canonical(43, "ACC-2", 50)

(***************************************************************************)
(* C14: the two writes of a transfer are two ledger steps.  On a platform  *)
(* that lets other invocations run between them there is a state with the  *)
(* sender debited and the receiver not yet credited, and exactly the       *)
(* states between the two writes are such; on a platform that runs every   *)
(* invocation as one step no such state exists.                            *)
(***************************************************************************)
\* what the two accounts were opened with
OpenedTotal == StepOpening("ACC-1") + StepOpening("ACC-2")

\* both accounts exist and part of the money is in neither
HalfApplied(l) == DOMAIN l = AccountNumbers /\ TotalBalance(l) # OpenedTotal

C14_TwoWrites ==
    /\ atomic => ~HalfApplied(ledger)
    /\ inflight # NoTransfer <=> HalfApplied(ledger)

\* a getBalance between the two writes of a transfer of 50 from ACC-1 to ACC-2
C14_Witness ==
    /\ ~atomic
    /\ inflight # NoTransfer
    /\ inflight.params = <<"ACC-1", "ACC-2", <<"5", "0">>>>
    /\ last.op = "getBalance"
    /\ last.params = <<"ACC-1">>
    /\ last.result = Success(<<50>>)
    /\ BalanceAt(ledger, "ACC-1") = 50
    /\ BalanceAt(ledger, "ACC-2") = 0

====
